---- MODULE Spec2Model ----
(***************************************************************************)
(* The conversation-and-image session of the "Lens" demo: the React state  *)
(* of Home (src/src/app/page.tsx) and the handlers that change it, reached *)
(* through ChatInterface (text form, voice transcript) and PhotoCapture.   *)
(*                                                                         *)
(* A JavaScript string is modelled as the sequence of its maximal runs of  *)
(* whitespace / non-whitespace characters ("tokens"); " " is the           *)
(* whitespace token.  Date.now() is the variable now.                      *)
(*                                                                         *)
(* A handler created during a render reads the state of THAT render (its   *)
(* closure).  Handlers invoked by React events (click, submit) come from   *)
(* the latest render.  The handlers of a SpeechRecognition object are      *)
(* attached once, in VoiceInput's effect, and keep the props of the render *)
(* that ran the effect.  Every render of ChatInterface in voice mode       *)
(* re-runs the effect (its dependencies are new functions each render):    *)
(* the cleanup stop()s the old object and a new one is created.  stop()    *)
(* makes a listening object return a result for the audio it already       *)
(* holds, so a stopped object may still fire onresult once, with the props *)
(* of the render that created it.                                          *)
(***************************************************************************)
EXTENDS Integers, Sequences, FiniteSets, TLC

VARIABLES
  images,       \* Home: useState<string[]>            page.tsx:11
  messages,     \* Home: useState<Message[]>           page.tsx:12
  isLoading,    \* Home: useState(false)               page.tsx:13
  calls,        \* chatWithImage invocations awaited at page.tsx:83, not yet settled
  isVoiceMode,  \* ChatInterface: useState(false)      ChatInterface.tsx:17
  stopped,      \* props closed over by a stop()ped SpeechRecognition that still holds audio, or NoRecognition
  added,        \* history: the images held after the last removal/clear, then every image added since
  now,          \* the clock read by Date.now()
  req,          \* server: the arguments of the chatWithImage invocation being served, or NoRequest
  pc,           \* server: where that invocation stands: "idle", "multimodal", "textOnly", "returned"
  textPrompt,   \* server: chatWithImage's local textPrompt
  generated,    \* server: the ai.generate calls the invocation has made, in order
  result,       \* server: what the invocation's promise settled with, or NoResult
  isCapturing,  \* PhotoCapture: useState(false)          PhotoCapture.tsx:14
  isProcessing, \* PhotoCapture: useState(false)          PhotoCapture.tsx:15
  stream,       \* PhotoCapture: useState<MediaStream | null>(null), NoStream for null
  cameraRequests, \* getUserMedia requests awaited at PhotoCapture.tsx:25, not yet settled
  liveStreams,  \* the MediaStreams acquired whose tracks have not been stopped
  uploads,      \* the handleFileUpload invocations that have not finished, oldest first
  speechApi,    \* whether window.SpeechRecognition exists: "unknown" until first looked up
  isListening,  \* VoiceInput: useState(false)            VoiceInput.tsx:13
  isSupported,  \* VoiceInput: useState(true)             VoiceInput.tsx:15
  errorMessage, \* VoiceInput: useState('')               VoiceInput.tsx:16
  rec,          \* the SpeechRecognition in recognitionRef: "none", "idle", "starting", "listening"
  lang,         \* its lang attribute
  tried         \* history: the languages recognition.start() was called with by the fallback

session == <<images, messages, isLoading, calls, isVoiceMode, stopped, added, now>>
server == <<req, pc, textPrompt, generated, result>>
photo == <<isCapturing, isProcessing, stream, cameraRequests, liveStreams, uploads>>
voice == <<speechApi, isListening, isSupported, errorMessage, rec, lang, tried>>
vars == <<images, messages, isLoading, calls, isVoiceMode, stopped, added, now,
          req, pc, textPrompt, generated, result,
          isCapturing, isProcessing, stream, cameraRequests, liveStreams, uploads,
          speechApi, isListening, isSupported, errorMessage, rec, lang, tried>>

----------------------------------------------------------------------------
(* Bounds of the model *)

\* at most this many chatWithImage calls are let in flight together
MaxCalls == 2
\* sends are let in only while messages, with every reply still due, fits in this length
MaxMessages == 3
\* a stop()ped recognition returns its result, or ends, before more than this many
\* other handlers have run
MaxStoppedAge == 1

----------------------------------------------------------------------------
(* Program constants and input domains *)

\* page.tsx:26-28: the 3-image limit (newImages.length > 3, slice(-3))
MaxImages == 3

Payloads == {"img1", "img2"}
ClearSentinel == ""
Undefined == "undefined"
Indexes == -1 .. MaxImages

Whitespace == " "
InputTexts == { <<>>, <<" ">>, <<" ", "what is this", " ">> }
Replies == { <<"A cat">> }
CannedText == <<"Please upload or capture an image first so I can analyze it for you.">>

\* SpeechRecognitionEvent: the results from event.resultIndex on
SpeechEvents ==
  { << [transcript |-> <<"what is this", " ">>, isFinal |-> TRUE] >>,
    << [transcript |-> <<" ">>, isFinal |-> TRUE] >>,
    << [transcript |-> <<"what">>, isFinal |-> FALSE] >> }

NoRecognition == [none |-> TRUE]

NoStream == 0
NoRequest == [none |-> TRUE]
NoResult == [kind |-> "pending", response |-> Undefined]

\* what the awaited chatWithImage promise can do: fulfil with a ChatResponse, or reject
SuccessResponses == { [success |-> TRUE, message |-> r, error |-> Undefined] : r \in Replies }
FailureResponses ==
  { [success |-> FALSE,
     message |-> <<"Sorry, I encountered an error while processing your request.">>,
     error |-> "Failed to generate response"] }
Outcomes ==
  { [kind |-> "fulfilled", response |-> r] : r \in SuccessResponses \cup FailureResponses }
  \cup { [kind |-> "rejected", response |-> Undefined] }

----------------------------------------------------------------------------
(* Pure helpers *)

\* Array.prototype.slice(-n)
SliceLast(s, n) == IF Len(s) > n THEN SubSeq(s, Len(s) - n + 1, Len(s)) ELSE s

\* mutant: a negative index counts from the end, as splice(index, 1) would
FilterOutIndex_fromEnd(s, index) ==
  LET at == IF index < 0 THEN Len(s) + index ELSE index
      keep == { i \in 1..Len(s) : i - 1 # at }
      F[k \in 0..Len(s)] ==
        IF k = 0 THEN <<>>
        ELSE IF k \in keep THEN Append(F[k-1], s[k]) ELSE F[k-1]
  IN F[Len(s)]

\* mutant: the filter compares the index with the 1-based position
FilterOutIndex_oneBased(s, index) ==
  LET keep == { i \in 1..Len(s) : i # index }
      F[k \in 0..Len(s)] ==
        IF k = 0 THEN <<>>
        ELSE IF k \in keep THEN Append(F[k-1], s[k]) ELSE F[k-1]
  IN F[Len(s)]

\* prev.filter((_, i) => i !== index), index 0-based
FilterOutIndex(s, index) ==
  LET keep == { i \in 1..Len(s) : i - 1 # index }
      F[k \in 0..Len(s)] ==
        IF k = 0 THEN <<>>
        ELSE IF k \in keep THEN Append(F[k-1], s[k]) ELSE F[k-1]
  IN F[Len(s)]

\* String.prototype.trim
RECURSIVE TrimLeft(_)
TrimLeft(s) == IF s # <<>> /\ Head(s) = Whitespace THEN TrimLeft(Tail(s)) ELSE s
RECURSIVE TrimRight(_)
TrimRight(s) ==
  IF s # <<>> /\ s[Len(s)] = Whitespace THEN TrimRight(SubSeq(s, 1, Len(s) - 1)) ELSE s
Trim(s) == TrimRight(TrimLeft(s))

RemoveAt(s, i) == SubSeq(s, 1, i - 1) \o SubSeq(s, i + 1, Len(s))

\* the props a handler created in the current render closes over
Props == [isLoading |-> isLoading, images |-> images, messages |-> messages]

----------------------------------------------------------------------------
(* Message construction, page.tsx:46-51, 59-65, 87-92 *)

SystemMessage ==
  [id |-> now, role |-> "assistant", content |-> CannedText,
   timestamp |-> now, imageUrl |-> Undefined]

UserMessage(message, imageUrl) ==
  [id |-> now, role |-> "user", content |-> message,
   timestamp |-> now, imageUrl |-> imageUrl]

AiMessage(text) ==
  [id |-> now + 1, role |-> "assistant", content |-> text,
   timestamp |-> now, imageUrl |-> Undefined]

\* updatedMessages.map((msg) => ({ role, content }))
ConversationHistory(msgs) ==
  [i \in 1..Len(msgs) |-> [role |-> msgs[i].role, content |-> msgs[i].content]]

\* `I have ${images.length} images to analyze. ${message}` when more than one image
EnhancedMessage(message, imgs) ==
  IF Len(imgs) > 1
  THEN << "I have " \o ToString(Len(imgs)) \o " images to analyze. " >> \o message
  ELSE message

----------------------------------------------------------------------------
Init ==
  /\ images = <<>>
  /\ messages = <<>>
  /\ isLoading = FALSE
  /\ calls = <<>>
  /\ isVoiceMode = FALSE
  /\ stopped = NoRecognition
  /\ added = <<>>
  /\ now = 0
  /\ req = NoRequest
  /\ pc = "idle"
  /\ textPrompt = <<>>
  /\ generated = <<>>
  /\ result = NoResult
  /\ isCapturing = FALSE
  /\ isProcessing = FALSE
  /\ stream = NoStream
  /\ cameraRequests = 0
  /\ liveStreams = {}
  /\ uploads = <<>>
  /\ speechApi = "unknown"
  /\ isListening = FALSE
  /\ isSupported = TRUE
  /\ errorMessage = ""
  /\ rec = "none"
  /\ lang = ""
  /\ tried = <<>>

----------------------------------------------------------------------------
(* VoiceInput: the effect's cleanup *)

\* the model's bound on how long a stop()ped recognition lingers
CanAge == IF stopped = NoRecognition THEN TRUE ELSE stopped.age < MaxStoppedAge
Aged == IF stopped = NoRecognition THEN stopped ELSE [stopped EXCEPT !.age = @ + 1]

\* VoiceInput.tsx:136-140, run when ChatInterface re-renders in voice mode or
\* VoiceInput unmounts: the object of the current render is stop()ped; if it was
\* listening it may still return a result, with the props it closed over
StopRecognition ==
  /\ CanAge
  /\ stopped' \in (IF isVoiceMode THEN {Aged, [props |-> Props, age |-> 0]} ELSE {Aged})

\* no render of ChatInterface in voice mode: no recognition is stopped
KeepRecognition ==
  /\ CanAge
  /\ stopped' = Aged

----------------------------------------------------------------------------
(* Home: image handlers *)

\* history: every call in flight whose image set is no longer the current one is marked
NoteImages(newImages) ==
  [i \in 1..Len(calls) |->
     [calls[i] EXCEPT !.imagesChanged = calls[i].imagesChanged \/ newImages # images]]

\* mutant: the limit keeps the oldest three, slice(0, 3)
NextImages_keepsOldest(prev, imageUrl) ==
  LET newImages == Append(prev, imageUrl)
  IN IF Len(newImages) > MaxImages THEN SubSeq(newImages, 1, MaxImages) ELSE newImages

\* the functional update of setImages in handleImageCapture
NextImages(prev, imageUrl) ==
  LET newImages == Append(prev, imageUrl)
  IN IF Len(newImages) > MaxImages THEN SliceLast(newImages, MaxImages) ELSE newImages

\* mutant: the sentinel branch clears the images only
handleImageCapture_sentinelKeepsMessages(imageUrl) ==
  /\ IF imageUrl = ClearSentinel
     THEN /\ images' = <<>>
          /\ messages' = messages
          /\ added' = <<>>
     ELSE /\ images' = NextImages(images, imageUrl)
          /\ messages' = <<>>
          /\ added' = SliceLast(Append(added, imageUrl), MaxImages + 1)
  /\ calls' = NoteImages(images')
  /\ StopRecognition
  /\ UNCHANGED <<isLoading, isVoiceMode, now>>
  /\ UNCHANGED server

\* called by PhotoCapture: capturePhoto, handleFileUpload (after the awaited
\* compression) and clearImage (with the sentinel '')
handleImageCapture(imageUrl) ==
  /\ IF imageUrl = ClearSentinel
     THEN /\ images' = <<>>
          /\ messages' = <<>>
          /\ added' = <<>>
     ELSE /\ images' = NextImages(images, imageUrl)
          /\ messages' = <<>>
          /\ added' = SliceLast(Append(added, imageUrl), MaxImages + 1)
  /\ calls' = NoteImages(images')
  /\ StopRecognition
  /\ UNCHANGED <<isLoading, isVoiceMode, now>>
  /\ UNCHANGED server

\* mutant: removeImage without its setMessages([])
removeImage_keepsMessages(index) ==
  /\ images' = FilterOutIndex(images, index)
  /\ messages' = messages
  /\ added' = images'
  /\ calls' = NoteImages(images')
  /\ StopRecognition
  /\ UNCHANGED <<isLoading, isVoiceMode, now>>
  /\ UNCHANGED server

removeImage(index) ==
  /\ images' = FilterOutIndex(images, index)
  /\ messages' = <<>>
  /\ added' = images'
  /\ calls' = NoteImages(images')
  /\ StopRecognition
  /\ UNCHANGED <<isLoading, isVoiceMode, now>>
  /\ UNCHANGED server

----------------------------------------------------------------------------
(* Home: handleSendMessage.  cl is the closure of the render that created  *)
(* the handler: cl.images and cl.messages are what the code calls images   *)
(* and messages.                                                           *)

\* the model lets a call to chatWithImage in only while its reply, and every reply
\* due, still fits
CanSend(cl) ==
  IF Len(cl.images) = 0 THEN TRUE
  ELSE /\ Len(calls) < MaxCalls
       /\ Len(cl.messages) + Len(calls) + 2 <= MaxMessages

\* page.tsx:43-83: the synchronous part, up to the await
handleSendMessage(message, cl) ==
  IF Len(cl.images) = 0
  THEN /\ messages' = <<SystemMessage>>
       /\ UNCHANGED <<isLoading, calls>>
  ELSE LET userMessage == UserMessage(message, cl.images[1])
           updatedMessages == Append(cl.messages, userMessage)
       IN /\ isLoading' = TRUE
          /\ messages' = updatedMessages
          /\ calls' = Append(calls,
               [message |-> EnhancedMessage(message, cl.images),
                imageUrl |-> cl.images[1],
                conversationHistory |-> ConversationHistory(updatedMessages),
                imagesChanged |-> cl.images # images])

\* mutant: a response with success=false has its message appended too
MessagesAfterSettle_appendsApology(prev, o) ==
  IF o.kind = "fulfilled"
  THEN Append(prev, AiMessage(o.response.message))
  ELSE prev

\* setMessages after the await: the functional update, on success only
MessagesAfterSettle(prev, o) ==
  IF o.kind = "fulfilled" /\ o.response.success
  THEN Append(prev, AiMessage(o.response.message))
  ELSE prev

\* mutant: setIsLoading(false) at the end of the try block, not in finally
LoadingAfterSettle_tryOnly(o) == IF o.kind = "rejected" THEN isLoading ELSE FALSE

\* the finally block: setIsLoading(false)
LoadingAfterSettle(o) == FALSE

\* mutant: a call that did not succeed is issued again
chatSettles_retries(i, o) ==
  /\ i \in 1..Len(calls)
  /\ messages' = MessagesAfterSettle(messages, o)
  /\ isLoading' = (IF o.kind = "fulfilled" /\ o.response.success THEN FALSE ELSE TRUE)
  /\ calls' = (IF o.kind = "fulfilled" /\ o.response.success
               THEN RemoveAt(calls, i)
               ELSE Append(RemoveAt(calls, i), calls[i]))
  /\ StopRecognition
  /\ UNCHANGED <<images, isVoiceMode, added, now>>
  /\ UNCHANGED server

\* mutant: a call that did not succeed resets the session's images
chatSettles_failureDropsImages(i, o) ==
  /\ i \in 1..Len(calls)
  /\ messages' = MessagesAfterSettle(messages, o)
  /\ isLoading' = LoadingAfterSettle(o)
  /\ calls' = RemoveAt(calls, i)
  /\ StopRecognition
  /\ images' = (IF o.kind = "fulfilled" /\ o.response.success THEN images ELSE <<>>)
  /\ UNCHANGED <<isVoiceMode, added, now>>
  /\ UNCHANGED server

\* page.tsx:83-102: the awaited call i settles with outcome o
chatSettles(i, o) ==
  /\ i \in 1..Len(calls)
  /\ messages' = MessagesAfterSettle(messages, o)
  /\ isLoading' = LoadingAfterSettle(o)
  /\ calls' = RemoveAt(calls, i)
  /\ StopRecognition
  /\ UNCHANGED <<images, isVoiceMode, added, now>>
  /\ UNCHANGED server

----------------------------------------------------------------------------
(* ChatInterface *)

\* form submit, by Enter in the textarea or by the submit button; the form is
\* rendered in Type mode only, the textarea is disabled={isLoading || !currentImage}
\* and the button is disabled={!inputText.trim() || isLoading || !currentImage}.
\* inputText is the textarea's content (ChatInterface state, set by onChange and
\* reset to '' after a send; no other handler reads it).
handleSubmit(inputText) ==
  /\ ~isVoiceMode
  /\ ~isLoading
  /\ images # <<>>
  /\ IF Trim(inputText) # <<>> /\ ~isLoading
     THEN /\ CanSend(Props)
          /\ handleSendMessage(Trim(inputText), Props)
     ELSE UNCHANGED <<messages, isLoading, calls>>
  /\ KeepRecognition
  /\ UNCHANGED <<images, isVoiceMode, added, now>>
  /\ UNCHANGED server

\* mutant: handleVoiceTranscript without its `text &&` check
handleVoiceTranscript_anyText(text, cl) ==
  IF ~cl.isLoading
  THEN /\ CanSend(cl)
       /\ handleSendMessage(text, cl)
       /\ isVoiceMode' = FALSE
  ELSE UNCHANGED <<messages, isLoading, calls, isVoiceMode>>

\* cl: the props of the render whose handleVoiceTranscript the recognition holds
handleVoiceTranscript(text, cl) ==
  IF text # <<>> /\ ~cl.isLoading
  THEN /\ CanSend(cl)
       /\ handleSendMessage(text, cl)
       /\ isVoiceMode' = FALSE
  ELSE UNCHANGED <<messages, isLoading, calls, isVoiceMode>>

\* the Type / Voice toggle; leaving voice mode unmounts VoiceInput
setIsVoiceMode(b) ==
  /\ isVoiceMode' = b
  /\ IF b THEN KeepRecognition ELSE StopRecognition
  /\ UNCHANGED <<images, messages, isLoading, calls, added, now>>
  /\ UNCHANGED server

----------------------------------------------------------------------------
(* VoiceInput *)

RECURSIVE FinalTranscript(_)
FinalTranscript(results) ==
  IF results = <<>> THEN <<>>
  ELSE (IF Head(results).isFinal THEN Head(results).transcript ELSE <<>>)
       \o FinalTranscript(Tail(results))

\* VoiceInput.tsx:51-70, of a recognition whose handlers closed over cl
onresultBody(event, cl) ==
  LET finalTranscript == FinalTranscript(event)
  IN IF finalTranscript # <<>>
     THEN handleVoiceTranscript(Trim(finalTranscript), cl)
     ELSE UNCHANGED <<messages, isLoading, calls, isVoiceMode>>

\* onresult of the mounted VoiceInput's recognition: created by the latest render
onresult(event) ==
  /\ isVoiceMode
  /\ onresultBody(event, Props)
  /\ IF isVoiceMode' # isVoiceMode THEN StopRecognition ELSE KeepRecognition
  /\ UNCHANGED <<images, added, now>>
  /\ UNCHANGED server

\* onresult of a stop()ped recognition: the result for the audio it held
onresultStopped(event) ==
  /\ stopped # NoRecognition
  /\ onresultBody(event, stopped.props)
  /\ stopped' = NoRecognition
  /\ UNCHANGED <<images, added, now>>
  /\ UNCHANGED server

\* a stop()ped recognition ends
onend ==
  /\ stopped # NoRecognition
  /\ stopped' = NoRecognition
  /\ UNCHANGED <<images, messages, isLoading, calls, isVoiceMode, added, now>>
  /\ UNCHANGED server

----------------------------------------------------------------------------
\* the session on its own: PhotoCapture and VoiceInput are seen through what they
\* call (handleImageCapture, onresult), their own state is left as it is
Next ==
  \/ \E imageUrl \in Payloads \cup {ClearSentinel} :
       handleImageCapture(imageUrl) /\ UNCHANGED <<photo, voice>>
  \/ \E index \in Indexes : removeImage(index) /\ UNCHANGED <<photo, voice>>
  \/ \E inputText \in InputTexts : handleSubmit(inputText) /\ UNCHANGED <<photo, voice>>
  \/ \E b \in BOOLEAN : setIsVoiceMode(b) /\ UNCHANGED <<photo, voice>>
  \/ \E event \in SpeechEvents : onresult(event) /\ UNCHANGED <<photo, voice>>
  \/ \E event \in SpeechEvents : onresultStopped(event) /\ UNCHANGED <<photo, voice>>
  \/ onend /\ UNCHANGED <<photo, voice>>
  \/ \E i \in 1..Len(calls) : \E o \in Outcomes :
       chatSettles(i, o) /\ UNCHANGED <<photo, voice>>

Spec == Init /\ [][Next]_vars

----------------------------------------------------------------------------
(* The session with its clock running.  In Spec no time passes (every      *)
(* Date.now() reads 0); here the clock may advance between any two         *)
(* handlers, by a millisecond at a time, and the text form drives the      *)
(* session.                                                                *)

\* the clock is followed up to this reading
MaxNow == 2

\* a millisecond passes
tick ==
  /\ now < MaxNow
  /\ now' = now + 1
  /\ UNCHANGED <<images, messages, isLoading, calls, isVoiceMode, stopped, added>>
  /\ UNCHANGED <<server, photo, voice>>

ClockNext ==
  \/ \E imageUrl \in Payloads \cup {ClearSentinel} :
       handleImageCapture(imageUrl) /\ UNCHANGED <<photo, voice>>
  \/ \E inputText \in InputTexts : handleSubmit(inputText) /\ UNCHANGED <<photo, voice>>
  \/ \E i \in 1..Len(calls) : \E o \in Outcomes :
       chatSettles(i, o) /\ UNCHANGED <<photo, voice>>
  \/ tick

ClockSpec == Init /\ [][ClockNext]_vars

----------------------------------------------------------------------------
(* PhotoCapture (src/src/components/PhotoCapture.tsx), mounted by Home     *)
(* with onImageCapture = handleImageCapture, currentImage = the last image *)
(* and disabled = images.length >= 3.  A picture is its pixel size; a      *)
(* data URL is the string that names its type and size.  getUserMedia and  *)
(* compressImage are awaited: what follows the await is a step of its own, *)
(* taken when the promise settles.                                         *)

\* at most this many getUserMedia requests are let in flight together
MaxRequests == 2
\* at most this many MediaStreams are followed while their tracks run
MaxStreams == 2
\* at most this many handleFileUpload invocations are let in flight together
MaxUploads == 2

\* PhotoCapture.tsx:59 (capturePhoto) and :79 (compressImage's default)
MaxWidth == 800

\* the files the picker can return, and the frame sizes of the video element
Files ==
  { [type |-> "image/png", width |-> 640, height |-> 480],
    [type |-> "image/png", width |-> 1600, height |-> 1200] }
VideoFrames == { [width |-> 1280, height |-> 720] }
NoFile == [none |-> TRUE]

\* page.tsx:215
disabled == Len(images) >= MaxImages
\* page.tsx:214: '' when there is no image
currentImage == IF Len(images) > 0 THEN images[Len(images)] ELSE ""

\* mutant: the size is kept whatever the width
Scale_keepsSize(d) == [width |-> d.width, height |-> d.height]

\* PhotoCapture.tsx:60-65 and 87-91
Scale(d) ==
  IF d.width > MaxWidth
  THEN [width |-> MaxWidth, height |-> (d.height * MaxWidth) \div d.width]
  ELSE [width |-> d.width, height |-> d.height]

\* canvas.toDataURL('image/jpeg', quality) of a canvas of size d
ToDataURL(quality, d) ==
  "data:image/jpeg;q=" \o quality \o ";" \o ToString(d.width) \o "x" \o ToString(d.height)

\* FileReader.readAsDataURL(file): the file as it is
ReadAsDataURL(file) ==
  "data:" \o file.type \o ";" \o ToString(file.width) \o "x" \o ToString(file.height)

\* what capturePhoto and compressImage hand to onImageCapture
CapturedUrl(frame) == ToDataURL("0.6", Scale(frame))
CompressedUrl(file) == ToDataURL("0.8", Scale(file))

\* every picture PhotoCapture can deliver, with the size its data URL encodes
Pictures ==
  { [url |-> CapturedUrl(f), size |-> Scale(f)] : f \in VideoFrames }
  \cup { [url |-> CompressedUrl(f), size |-> Scale(f)] : f \in Files }
  \cup { [url |-> ReadAsDataURL(f), size |-> [width |-> f.width, height |-> f.height]] : f \in Files }
PhotoPayloads == { p.url : p \in Pictures }
SizeOf(url) == (CHOOSE p \in Pictures : p.url = url).size

\* the buttons that call startCamera or open the file picker: the main pair
\* (lines 239-266, disabled={disabled || isProcessing}) and the "new" pair shown
\* under an image (lines 270-296, never disabled)
ButtonsUsable ==
  /\ ~isCapturing
  /\ \/ ~(disabled \/ isProcessing)
     \/ currentImage # ""

\* PhotoCapture.tsx:21-25: up to the await
startCamera ==
  /\ ButtonsUsable
  /\ ~disabled
  /\ cameraRequests < MaxRequests
  /\ cameraRequests' = cameraRequests + 1
  /\ UNCHANGED <<isCapturing, isProcessing, stream, liveStreams, uploads>>
  /\ UNCHANGED <<session, server, voice>>

\* PhotoCapture.tsx:25-33: getUserMedia resolves with a new MediaStream
getUserMediaResolves ==
  /\ cameraRequests > 0
  /\ \E mediaStream \in (1..MaxStreams) \ liveStreams :
       /\ liveStreams' = liveStreams \cup {mediaStream}
       /\ stream' = mediaStream
  /\ isCapturing' = TRUE
  /\ cameraRequests' = cameraRequests - 1
  /\ UNCHANGED <<isProcessing, uploads>>
  /\ UNCHANGED <<session, server, voice>>

\* PhotoCapture.tsx:43-49
stopCameraBody ==
  /\ liveStreams' = (IF stream # NoStream THEN liveStreams \ {stream} ELSE liveStreams)
  /\ stream' = NoStream
  /\ isCapturing' = FALSE

\* the Cancel button of the camera view
stopCamera ==
  /\ isCapturing
  /\ stopCameraBody
  /\ UNCHANGED <<isProcessing, cameraRequests, uploads>>
  /\ UNCHANGED <<session, server, voice>>

\* PhotoCapture.tsx:51-77: the Capture Photo button of the camera view; the video
\* and the canvas are rendered while isCapturing
capturePhoto(frame) ==
  /\ isCapturing
  /\ handleImageCapture(CapturedUrl(frame))
  /\ stopCameraBody
  /\ UNCHANGED <<isProcessing, cameraRequests, uploads>>
  /\ UNCHANGED voice

\* PhotoCapture.tsx:106-114: up to the await; compressImage has created the Image
\* and set its src
handleFileUploadBody(file) ==
  /\ ~disabled
  /\ Len(uploads) < MaxUploads
  /\ isProcessing' = TRUE
  /\ uploads' = Append(uploads, [file |-> file, state |-> "compressing"])

\* the file input's onChange, after the picker was opened by a button
handleFileUpload(file) ==
  /\ ButtonsUsable
  /\ handleFileUploadBody(file)
  /\ UNCHANGED <<isCapturing, stream, cameraRequests, liveStreams>>
  /\ UNCHANGED <<session, server, voice>>

\* PhotoCapture.tsx:34-40: getUserMedia rejects; the catch opens the file picker
\* (disabled was false in the render whose startCamera this is), and the user
\* picks a file there or dismisses it
getUserMediaRejects(choice) ==
  /\ cameraRequests > 0
  /\ cameraRequests' = cameraRequests - 1
  /\ IF choice = NoFile
     THEN UNCHANGED <<isProcessing, uploads>>
     ELSE handleFileUploadBody(choice)
  /\ UNCHANGED <<isCapturing, stream, liveStreams>>
  /\ UNCHANGED <<session, server, voice>>

\* PhotoCapture.tsx:85-100, then 115 and 125-127: the Image loads, compressImage
\* resolves, the picture is delivered and the finally block runs
imgOnload(u) ==
  /\ u \in 1..Len(uploads)
  /\ uploads[u].state = "compressing"
  /\ handleImageCapture(CompressedUrl(uploads[u].file))
  /\ isProcessing' = FALSE
  /\ uploads' = RemoveAt(uploads, u)
  /\ UNCHANGED <<isCapturing, stream, cameraRequests, liveStreams>>
  /\ UNCHANGED voice

\* the Image cannot decode the file: its error event fires.  compressImage sets
\* no onerror (lines 83-102), so its promise neither resolves nor rejects
imgOnerror(u) ==
  /\ u \in 1..Len(uploads)
  /\ uploads[u].state = "compressing"
  /\ uploads' = [uploads EXCEPT ![u].state = "stalled"]
  /\ UNCHANGED <<isCapturing, isProcessing, stream, cameraRequests, liveStreams>>
  /\ UNCHANGED <<session, server, voice>>

\* PhotoCapture.tsx:116-127: compressImage's executor threw, the promise is
\* rejected; the catch starts a FileReader on the file and the finally block runs
compressImageRejects(u) ==
  /\ u \in 1..Len(uploads)
  /\ uploads[u].state = "compressing"
  /\ uploads' = [uploads EXCEPT ![u].state = "reading"]
  /\ isProcessing' = FALSE
  /\ UNCHANGED <<isCapturing, stream, cameraRequests, liveStreams>>
  /\ UNCHANGED <<session, server, voice>>

\* PhotoCapture.tsx:120-123: reader.onload
readerOnload(u) ==
  /\ u \in 1..Len(uploads)
  /\ uploads[u].state = "reading"
  /\ handleImageCapture(ReadAsDataURL(uploads[u].file))
  /\ uploads' = RemoveAt(uploads, u)
  /\ UNCHANGED <<isCapturing, isProcessing, stream, cameraRequests, liveStreams>>
  /\ UNCHANGED voice

\* PhotoCapture.tsx:130-132: the X over the current image (lines 137, 153-158)
clearImage ==
  /\ currentImage # ""
  /\ ~isCapturing
  /\ handleImageCapture(ClearSentinel)
  /\ UNCHANGED <<photo, voice>>

PhotoNext ==
  \/ startCamera
  \/ getUserMediaResolves
  \/ \E choice \in Files \cup {NoFile} : getUserMediaRejects(choice)
  \/ stopCamera
  \/ \E frame \in VideoFrames : capturePhoto(frame)
  \/ \E file \in Files : handleFileUpload(file)
  \/ \E u \in 1..Len(uploads) : imgOnload(u)
  \/ \E u \in 1..Len(uploads) : imgOnerror(u)
  \/ \E u \in 1..Len(uploads) : compressImageRejects(u)
  \/ \E u \in 1..Len(uploads) : readerOnload(u)
  \/ clearImage
  \/ \E index \in 0..(Len(images) - 1) : removeImage(index) /\ UNCHANGED <<photo, voice>>

PhotoSpec == Init /\ [][PhotoNext]_vars

----------------------------------------------------------------------------
(* VoiceInput (src/src/components/VoiceInput.tsx), mounted by ChatInterface *)
(* while isVoiceMode.  rec is the state of the SpeechRecognition held in    *)
(* recognitionRef: "none" (no object), "idle", "starting" (start() called,  *)
(* the start event not yet fired), "listening", "stopping" (stop() called   *)
(* while listening), "ending" (an error was reported, the end event is      *)
(* due).  The effect runs at mount and again at every render of             *)
(* ChatInterface (its dependencies are new functions each time): the        *)
(* cleanup stop()s the object in the ref and a new one is created, while    *)
(* the component's state stays.  A recognition stop()ped while listening is *)
(* the one the session calls stopped.  Whether start() throws when called   *)
(* inside the error handler, before the end event, is the browser's choice. *)

\* the fallback is followed while it has called start() fewer times than this
MaxTried == 2

BrowserLangs == {"sw-KE"}
fallbackLangs == <<"en-US", "en", "en-GB">>
ErrorKinds == {"language-not-supported", "not-allowed", "no-speech"}
VoicePayloads == {"img1"}
VoiceTexts == { <<" ", "what is this", " ">> }

NotSupportedMessage == "Voice recognition is not supported in this browser."
TryingMessage == "Language not supported, trying alternatives..."
NotAvailableMessage == "Voice recognition not available for your language"
AccessDeniedMessage == "Microphone access denied. Please allow microphone access to use voice input."
NoSpeechMessage == "No speech detected. Please try again."
FailedToStartMessage == "Failed to start voice recognition. Please try again."

\* VoiceInput.tsx:136-140 refined by the recognition's state: the object stop()ped
\* by the cleanup holds audio exactly when it was listening
CleanupStops ==
  stopped' = (IF rec = "listening" THEN [props |-> Props, age |-> 0] ELSE Aged)

\* VoiceInput.tsx:19-134: the effect's body
EffectBody ==
  IF speechApi' = "missing"
  THEN /\ isSupported' = FALSE
       /\ errorMessage' = NotSupportedMessage
       /\ rec' = "none"
       /\ lang' = ""
       /\ tried' = <<>>
       /\ UNCHANGED isListening
  ELSE /\ rec' = "idle"
       /\ lang' \in BrowserLangs
       /\ tried' = <<>>
       /\ UNCHANGED <<isListening, isSupported, errorMessage>>

\* VoiceInput mounts: useState initial values (lines 13-16), then the effect
Mount ==
  /\ speechApi' \in (IF speechApi = "unknown" THEN {"available", "missing"} ELSE {speechApi})
  /\ isListening' = FALSE
  /\ IF speechApi' = "missing"
     THEN /\ isSupported' = FALSE
          /\ errorMessage' = NotSupportedMessage
          /\ rec' = "none"
          /\ lang' = ""
     ELSE /\ isSupported' = TRUE
          /\ errorMessage' = ""
          /\ rec' = "idle"
          /\ lang' \in BrowserLangs
  /\ tried' = <<>>

\* VoiceInput unmounts: the cleanup runs and the component's state is gone
Unmount ==
  /\ CleanupStops
  /\ isListening' = FALSE
  /\ isSupported' = TRUE
  /\ errorMessage' = ""
  /\ rec' = "none"
  /\ lang' = ""
  /\ tried' = <<>>
  /\ UNCHANGED speechApi

\* ChatInterface renders again with VoiceInput mounted: cleanup, then the effect
Rerun ==
  /\ CleanupStops
  /\ UNCHANGED speechApi
  /\ EffectBody

\* what a step of the session does to VoiceInput
VoiceFollows ==
  IF isVoiceMode /\ isVoiceMode' THEN Rerun
  ELSE IF isVoiceMode THEN Unmount
  ELSE UNCHANGED voice

\* the Voice toggle (ChatInterface.tsx:199-210) with VoiceInput not mounted
voiceModeOn ==
  /\ ~isVoiceMode
  /\ stopped = NoRecognition
  /\ setIsVoiceMode(TRUE)
  /\ Mount
  /\ UNCHANGED photo

\* the Type toggle (ChatInterface.tsx:186-198) with VoiceInput mounted
voiceModeOff ==
  /\ isVoiceMode
  /\ setIsVoiceMode(FALSE)
  /\ Unmount
  /\ UNCHANGED photo

\* VoiceInput.tsx:143-154, the button of line 191-192 (rendered while isSupported,
\* calling startListening while ~isListening)
startListening ==
  /\ isVoiceMode
  /\ isSupported
  /\ rec # "none" /\ ~isListening
  /\ IF rec = "idle"
     THEN /\ rec' = "starting"
          /\ errorMessage' = ""
     ELSE /\ rec' = rec
          /\ errorMessage' = FailedToStartMessage
  /\ tried' = <<>>
  /\ UNCHANGED <<speechApi, isListening, isSupported, lang>>
  /\ UNCHANGED <<session, server, photo>>

\* VoiceInput.tsx:156-160, the same button while isListening
stopListening ==
  /\ isVoiceMode
  /\ isSupported
  /\ rec # "none" /\ isListening
  /\ rec' = (IF rec = "listening" THEN "stopping" ELSE rec)
  /\ UNCHANGED <<speechApi, isListening, isSupported, errorMessage, lang, tried>>
  /\ UNCHANGED <<session, server, photo>>

\* VoiceInput.tsx:46-49
onstart ==
  /\ rec = "starting"
  /\ rec' = "listening"
  /\ isListening' = TRUE
  /\ UNCHANGED <<speechApi, isSupported, errorMessage, lang, tried>>
  /\ UNCHANGED <<session, server, photo>>

\* VoiceInput.tsx:51-70 of the recognition in the ref
recognitionOnresult(event) ==
  /\ rec \in {"listening", "stopping"}
  /\ onresult(event)
  /\ IF isVoiceMode' THEN UNCHANGED voice ELSE Unmount
  /\ UNCHANGED photo

\* VoiceInput.tsx:81-105: langIndex starts at 0; start() is called with en-US, en,
\* en-GB in turn until one call does not throw; throws is the number of calls that
\* threw
tryNextLanguage(throws) ==
  /\ throws \in 0..Len(fallbackLangs)
  /\ tried' = tried \o SubSeq(fallbackLangs, 1, IF throws < Len(fallbackLangs) THEN throws + 1 ELSE throws)
  /\ lang' = tried'[Len(tried')]
  /\ IF throws < Len(fallbackLangs)
     THEN /\ rec' = "starting"
          /\ errorMessage' = ""
          /\ UNCHANGED isSupported
     ELSE /\ rec' = "ending"
          /\ errorMessage' = NotAvailableMessage
          /\ isSupported' = FALSE

\* mutant: 'not-allowed' only shows its message
onerrorBody_deniedStaysSupported(error) ==
  /\ IF error = "language-not-supported"
     THEN \E throws \in {0, Len(fallbackLangs)} : tryNextLanguage(throws)
     ELSE /\ errorMessage' = (IF error = "not-allowed" THEN AccessDeniedMessage ELSE NoSpeechMessage)
          /\ UNCHANGED isSupported
          /\ rec' = "ending"
          /\ UNCHANGED <<lang, tried>>
  /\ isListening' = FALSE

\* VoiceInput.tsx:72-121.  start() throws for a recognition that is started, so
\* inside the handler either the first call goes through or all three throw
onerrorBody(error) ==
  /\ IF error = "language-not-supported"
     THEN \E throws \in {0, Len(fallbackLangs)} : tryNextLanguage(throws)
     ELSE /\ errorMessage' = (IF error = "not-allowed" THEN AccessDeniedMessage ELSE NoSpeechMessage)
          /\ isSupported' = (IF error = "not-allowed" THEN FALSE ELSE isSupported)
          /\ rec' = "ending"
          /\ UNCHANGED <<lang, tried>>
  /\ isListening' = FALSE

\* the error event of the recognition in the ref
onerror(error) ==
  /\ rec \in {"starting", "listening"}
  /\ error = "language-not-supported" => Len(tried) < MaxTried
  /\ onerrorBody(error)
  /\ UNCHANGED speechApi
  /\ UNCHANGED <<session, server, photo>>

\* VoiceInput.tsx:123-126: the end event of the recognition in the ref
recognitionOnend ==
  /\ rec \in {"listening", "stopping", "ending"}
  /\ rec' = "idle"
  /\ isListening' = FALSE
  /\ UNCHANGED <<speechApi, isSupported, errorMessage, lang, tried>>
  /\ UNCHANGED <<session, server, photo>>

\* the last result of a stop()ped recognition, followed by its end event: its
\* handlers are those of lines 51-70 and 123-126, with the props it closed over
stoppedOnresult(event) ==
  /\ onresultStopped(event)
  /\ IF isVoiceMode /\ isVoiceMode'
     THEN isListening' = FALSE /\ UNCHANGED <<speechApi, isSupported, errorMessage, rec, lang, tried>>
     ELSE IF isVoiceMode
          THEN /\ isListening' = FALSE /\ isSupported' = TRUE /\ errorMessage' = ""
               /\ rec' = "none" /\ lang' = "" /\ tried' = <<>> /\ UNCHANGED speechApi
          ELSE UNCHANGED voice
  /\ UNCHANGED photo

\* the end event of a stop()ped recognition that returns no result
stoppedOnend ==
  /\ onend
  /\ IF isVoiceMode
     THEN isListening' = FALSE /\ UNCHANGED <<speechApi, isSupported, errorMessage, rec, lang, tried>>
     ELSE UNCHANGED voice
  /\ UNCHANGED photo

VoiceNext ==
  \/ voiceModeOn
  \/ voiceModeOff
  \/ startListening
  \/ stopListening
  \/ onstart
  \/ \E event \in SpeechEvents : recognitionOnresult(event)
  \/ \E error \in ErrorKinds : onerror(error)
  \/ recognitionOnend
  \/ \E event \in SpeechEvents : stoppedOnresult(event)
  \/ stoppedOnend
  \/ \E imageUrl \in VoicePayloads :
       handleImageCapture(imageUrl) /\ VoiceFollows /\ UNCHANGED photo
  \/ \E inputText \in VoiceTexts : handleSubmit(inputText) /\ UNCHANGED <<photo, voice>>
  \/ \E i \in 1..Len(calls) : \E o \in Outcomes :
       chatSettles(i, o) /\ VoiceFollows /\ UNCHANGED photo

VoiceSpec == Init /\ [][VoiceNext]_vars

----------------------------------------------------------------------------
(* The server action chatWithImage, in the two variants the repository     *)
(* holds: part_000 (text-only fallback) and part_001 (image required).     *)
(* One invocation is followed from its arguments to the settling of its    *)
(* promise; ai.generate is the only call it awaits.                        *)

\* the longest conversationHistory an invocation is given
MaxHistory == 11

Variants == {"part_000", "part_001"}

\* an imageUrl argument that is not a string: a server action receives what the
\* client posts
NonString == "{}"
DataUrl == "data:image/png;base64,AAAA"
RequestImageUrls == {Undefined, ClearSentinel, Whitespace, "img1", DataUrl, NonString}
RequestMessages == { <<"what is this">>, <<"I have 2 images to analyze. ", "what is this">> }

\* n history entries, user and assistant in turn, entry blank (if any) with content ''
History(n, blank) ==
  [i \in 1..n |->
     [role |-> IF i % 2 = 1 THEN "user" ELSE "assistant",
      content |-> IF i = blank THEN <<>> ELSE << "m" \o ToString(i) >>]]
RequestHistories ==
  { History(n, blank) : n \in 0..MaxHistory, blank \in {0, 1, MaxHistory} }

\* what an awaited ai.generate can do: return a response, throw an Error, throw
\* something else
GenerateOutcomes ==
  { [ok |-> TRUE, text |-> r, isError |-> FALSE, errorMessage |-> Undefined] :
      r \in Replies \cup { <<>> } }
  \cup { [ok |-> FALSE, text |-> <<>>, isError |-> TRUE, errorMessage |-> "quota exceeded"],
         [ok |-> FALSE, text |-> <<>>, isError |-> FALSE, errorMessage |-> Undefined] }

\* the TypeError of imageUrl.trim() / imageUrl.split(',') on a value with no such method
NotAFunction ==
  [ok |-> FALSE, text |-> <<>>, isError |-> TRUE, errorMessage |-> "is not a function"]

SYSTEM_PROMPT ==
  "You are an expert AI-powered image analysis tool with advanced computer vision capabilities. ..."

\* truthiness of the imageUrl argument: `if (imageUrl)`, `!imageUrl`
Truthy(imageUrl) == imageUrl # Undefined /\ imageUrl # ClearSentinel

\* imageUrl.trim() === '' for a string argument
TrimsToEmpty(imageUrl) == imageUrl \in {ClearSentinel, Whitespace}

\* imageUrl.split(',')[0].match(/data:([^;]+)/)?.[1] || 'image/jpeg'
MimeType(imageUrl) == IF imageUrl = DataUrl THEN "image/png" ELSE "image/jpeg"

\* the length of the history window: slice(-6) in part_000, slice(-10) in part_001
HistoryWindow(variant) == IF variant = "part_000" THEN 6 ELSE 10

\* .filter((msg) => msg && typeof msg === 'object' && msg.role && msg.content)
FilterHistory(history) == SelectSeq(history, LAMBDA msg : msg.content # <<>>)

\* `${msg.role === 'user' ? 'User' : 'Assistant'}: ${msg.content}`
RenderMessage(msg) ==
  << (IF msg.role = "user" THEN "User" ELSE "Assistant") \o ": " >> \o msg.content

\* .map(...).join('\n')
RECURSIVE JoinLines(_)
JoinLines(msgs) ==
  IF msgs = <<>> THEN <<>>
  ELSE IF Len(msgs) = 1 THEN RenderMessage(msgs[1])
  ELSE RenderMessage(msgs[1]) \o << "\n" >> \o JoinLines(Tail(msgs))

\* recentHistory, with the last n messages kept
RecentHistory(history, n) == JoinLines(FilterHistory(SliceLast(history, n)))

\* textPrompt as it stands before the first ai.generate
BuildPrompt(message, history, n) ==
  << SYSTEM_PROMPT >>
  \o (IF Len(history) > 0 /\ Trim(RecentHistory(history, n)) # <<>>
      THEN << "Previous conversation context:\n" >> \o RecentHistory(history, n) \o << "\n\n" >>
      ELSE <<>>)
  \o << "User Request: " >> \o message
  \o << "\n\nPlease analyze the provided image and respond to the user's specific question. Keep your response focused and under 600 words." >>

\* part_000: what the catch of the multimodal attempt adds to textPrompt
FallbackNote(mimeType) ==
  << "\n\n[Image provided with type: " \o mimeType
     \o ". Please analyze this image and respond to the user's question.]" >>

\* error instanceof Error ? error.message : <otherwise>
ErrorDetail(e, otherwise) == IF e.isError THEN e.errorMessage ELSE otherwise

Fulfilled(response) == [kind |-> "fulfilled", response |-> response]

SuccessResponse(text) == [success |-> TRUE, message |-> text, error |-> Undefined]

\* part_001: the early return when no image is given
NoImageResponse ==
  [success |-> FALSE,
   message |-> << "Please upload or capture an image first so I can analyze it for you. I need to see the image to provide accurate analysis and answer your questions." >>,
   error |-> "No image provided"]

\* part_001: the return of the inner catch
MultimodalFailedResponse(e) ==
  [success |-> FALSE,
   message |-> << "I encountered an error while analyzing your image. [...]\n\nError details: ",
                  ErrorDetail(e, "Unknown error") >>,
   error |-> "Multimodal generation failed"]

\* mutant: the outer catch lets the exception out
Catch_rethrows(variant, e) == [kind |-> "rejected", response |-> Undefined]

\* the outer catch of either variant: the promise fulfils with a failure response
Catch(variant, e) ==
  Fulfilled(
    IF variant = "part_000"
    THEN [success |-> FALSE,
          message |-> << "Sorry, I encountered an error while processing your request." >>,
          error |-> "Failed to generate response"]
    ELSE [success |-> FALSE,
          message |-> << "I'm sorry, but I encountered an unexpected error while processing your request. [...]\n\nTechnical details: ",
                         ErrorDetail(e, "Unknown error occurred") >>,
          error |-> "Processing failed"])

\* an ai.generate call: prompt is `parts` ("multimodal") or textPrompt ("text")
Generate(kind, prompt, imageUrl) ==
  [kind |-> kind, prompt |-> prompt,
   url |-> IF kind = "multimodal" THEN imageUrl ELSE Undefined,
   contentType |-> IF kind = "multimodal" THEN MimeType(imageUrl) ELSE Undefined,
   outcome |-> "pending", text |-> <<>>]

\* the last ai.generate call, settled with outcome o
Settled(o) ==
  [generated EXCEPT ![Len(generated)] =
     [@ EXCEPT !.outcome = IF o.ok THEN "ok" ELSE "failed", !.text = o.text]]

\* chatWithImage is invoked: it runs to its first await, or to its return
chatWithImage(variant, message, imageUrl, conversationHistory) ==
  /\ pc = "idle"
  /\ req' = [variant |-> variant, message |-> message, imageUrl |-> imageUrl,
             conversationHistory |-> conversationHistory]
  /\ IF variant = "part_001" /\ (~Truthy(imageUrl) \/ TrimsToEmpty(imageUrl))
     THEN /\ textPrompt' = <<>>
          /\ generated' = <<>>
          /\ result' = Fulfilled(NoImageResponse)
          /\ pc' = "returned"
     ELSE IF imageUrl = NonString
     THEN /\ textPrompt' = (IF variant = "part_000"
                            THEN BuildPrompt(message, conversationHistory, HistoryWindow(variant))
                            ELSE <<>>)
          /\ generated' = <<>>
          /\ result' = Catch(variant, NotAFunction)
          /\ pc' = "returned"
     ELSE /\ textPrompt' = BuildPrompt(message, conversationHistory, HistoryWindow(variant))
          /\ result' = NoResult
          /\ IF Truthy(imageUrl)
             THEN /\ generated' = << Generate("multimodal", textPrompt', imageUrl) >>
                  /\ pc' = "multimodal"
             ELSE /\ generated' = << Generate("text", textPrompt', imageUrl) >>
                  /\ pc' = "textOnly"
  /\ UNCHANGED session

\* mutant: part_000 without its fallback: a failed multimodal generation is final
generateSettles_noFallback(o) ==
  /\ pc \in {"multimodal", "textOnly"}
  /\ IF o.ok
     THEN /\ result' = Fulfilled(SuccessResponse(o.text))
          /\ generated' = Settled(o)
          /\ pc' = "returned"
          /\ UNCHANGED textPrompt
     ELSE IF pc = "multimodal" /\ req.variant = "part_001"
     THEN /\ result' = Fulfilled(MultimodalFailedResponse(o))
          /\ generated' = Settled(o)
          /\ pc' = "returned"
          /\ UNCHANGED textPrompt
     ELSE /\ result' = Catch(req.variant, o)
          /\ generated' = Settled(o)
          /\ pc' = "returned"
          /\ UNCHANGED textPrompt
  /\ UNCHANGED <<req, session>>

\* the awaited ai.generate settles with outcome o
generateSettles(o) ==
  /\ pc \in {"multimodal", "textOnly"}
  /\ IF o.ok
     THEN /\ result' = Fulfilled(SuccessResponse(o.text))
          /\ generated' = Settled(o)
          /\ pc' = "returned"
          /\ UNCHANGED textPrompt
     ELSE IF pc = "multimodal" /\ req.variant = "part_000"
     THEN /\ textPrompt' = textPrompt \o FallbackNote(MimeType(req.imageUrl))
          /\ generated' = Append(Settled(o), Generate("text", textPrompt', req.imageUrl))
          /\ pc' = "textOnly"
          /\ UNCHANGED result
     ELSE IF pc = "multimodal"
     THEN /\ result' = Fulfilled(MultimodalFailedResponse(o))
          /\ generated' = Settled(o)
          /\ pc' = "returned"
          /\ UNCHANGED textPrompt
     ELSE /\ result' = Catch(req.variant, o)
          /\ generated' = Settled(o)
          /\ pc' = "returned"
          /\ UNCHANGED textPrompt
  /\ UNCHANGED <<req, session>>

\* the settled promise is delivered to the caller; the server takes the next invocation
chatWithImageReturns ==
  /\ pc = "returned"
  /\ req' = NoRequest
  /\ pc' = "idle"
  /\ textPrompt' = <<>>
  /\ generated' = <<>>
  /\ result' = NoResult
  /\ UNCHANGED session

ChatNext ==
  \/ \E variant \in Variants : \E message \in RequestMessages :
       \E imageUrl \in RequestImageUrls : \E conversationHistory \in RequestHistories :
         chatWithImage(variant, message, imageUrl, conversationHistory)
           /\ UNCHANGED <<photo, voice>>
  \/ \E o \in GenerateOutcomes : generateSettles(o) /\ UNCHANGED <<photo, voice>>
  \/ chatWithImageReturns /\ UNCHANGED <<photo, voice>>

ChatSpec == Init /\ [][ChatNext]_vars

----------------------------------------------------------------------------
(* Steps of the session, as the claims name them *)

AddImageStep == \E imageUrl \in Payloads : handleImageCapture(imageUrl)
ClearStep == handleImageCapture(ClearSentinel)
RemoveImageStep == \E index \in Indexes : removeImage(index)

\* a call to chatWithImage is issued: handleSendMessage took its image branch
CallIssued == Len(calls') = Len(calls) + 1
NewCall == calls'[Len(calls')]

\* handleSendMessage took its no-image branch: a transcript reached it through a
\* recognition whose closure holds no image
NoImageSendStep ==
  \E event \in SpeechEvents :
    /\ Trim(FinalTranscript(event)) # <<>>
    /\ \/ onresult(event) /\ images = <<>> /\ ~isLoading
       \/ /\ onresultStopped(event)
          /\ stopped.props.images = <<>>
          /\ ~stopped.props.isLoading

Succeeds(o) == o.kind = "fulfilled" /\ o.response.success

\* handleSendMessage ran, in either branch: some handler passed it a message
SendStep ==
  \/ \E inputText \in InputTexts : handleSubmit(inputText) /\ Trim(inputText) # <<>>
  \/ \E event \in SpeechEvents :
       /\ Trim(FinalTranscript(event)) # <<>>
       /\ \/ onresult(event) /\ ~isLoading
          \/ onresultStopped(event) /\ ~stopped.props.isLoading

SettleStep == \E i \in 1..Len(calls) : \E o \in Outcomes : chatSettles(i, o)

\* messages' is messages, or messages with one message added at its end
AppendsAtMostOne(old, new) ==
  \/ new = old
  \/ /\ Len(new) = Len(old) + 1
     /\ SubSeq(new, 1, Len(old)) = old

----------------------------------------------------------------------------
(* Claims *)

\* C1: images never holds more than 3 entries, and it is always the last 3, oldest
\* first, of the images held after the last removal followed by the images added
\* since (adding a 4th evicts the oldest).
C1_LastThreeAdded ==
  /\ Len(images) <= MaxImages
  /\ images = SliceLast(added, MaxImages)

C1_Witness ==
  /\ added = <<"img1", "img2", "img2", "img1">>
  /\ images = <<"img2", "img2", "img1">>

\* C2: immediately after any handleImageCapture (image or sentinel) or removeImage
\* (any index), messages is empty.
C2_ImageChangeClearsMessages ==
  [][(AddImageStep \/ ClearStep \/ RemoveImageStep) => messages' = <<>>]_vars

\* a call is in flight, so its send had put a user message in messages, and messages
\* is empty: an image handler ran on a non-empty messages
C2_Witness ==
  /\ calls # <<>>
  /\ messages = <<>>

\* C3: a reply that settles after the image set changed while the call was in flight
\* is discarded: it is not appended to messages.
C3_SupersededReplyDiscarded ==
  [][\A i \in 1..Len(calls) : \A o \in Outcomes :
       (chatSettles(i, o) /\ calls[i].imagesChanged) => messages' = messages]_vars

\* C4: at most one chatWithImage call is in flight at any time.
C4_SingleFlight == Len(calls) <= 1

\* C5: a send that issues the AI call appends exactly one user message, carrying the
\* text sent, to messages and sets isLoading; a successful settle appends exactly one
\* assistant message carrying the returned text and sets isLoading to false.
C5_TurnAppendsUserThenAssistant ==
  [][/\ CallIssued =>
          /\ Len(messages') = Len(messages) + 1
          /\ SubSeq(messages', 1, Len(messages)) = messages
          /\ messages'[Len(messages')].role = "user"
          /\ messages'[Len(messages')].content
               = NewCall.conversationHistory[Len(NewCall.conversationHistory)].content
          /\ isLoading'
     /\ \A i \in 1..Len(calls) : \A o \in Outcomes :
          (chatSettles(i, o) /\ Succeeds(o)) =>
             /\ messages' = Append(messages, AiMessage(o.response.message))
             /\ ~isLoading']_vars

\* C6: a send with no image appends exactly one assistant message (the canned
\* request) to messages, keeping every message already there, issues no AI call and
\* leaves isLoading as it is.
C6_NoImageAppendsCanned ==
  [][NoImageSendStep =>
       /\ messages' = Append(messages, SystemMessage)
       /\ calls' = calls
       /\ isLoading' = isLoading]_vars

\* C7: when the awaited call rejects or returns success=false, no message is added
\* (messages is left as it is, the user's message with no error message after it)
\* and isLoading is false afterwards.
C7_FailureAddsNoMessage ==
  [][\A i \in 1..Len(calls) : \A o \in Outcomes :
       (chatSettles(i, o) /\ ~Succeeds(o)) =>
          /\ messages' = messages
          /\ ~isLoading']_vars

\* the turn's user message alone, nothing in flight: its call settled without a reply
C7_Witness ==
  /\ calls = <<>>
  /\ ~isLoading
  /\ Len(messages) = 1
  /\ messages[1].role = "user"

\* C8: whenever an awaited call settles, by success, success=false or rejection,
\* isLoading is false right after; isLoading is never true with no call in flight.
C8_SettleReturnsToIdle ==
  /\ [](calls = <<>> => ~isLoading)
  /\ [][\A i \in 1..Len(calls) : \A o \in Outcomes :
          chatSettles(i, o) => ~isLoading']_vars

\* a completed turn: user message, reply, nothing in flight, idle
C8_Witness ==
  /\ calls = <<>>
  /\ ~isLoading
  /\ Len(messages) = 2
  /\ messages[1].role = "user"
  /\ messages[2] = AiMessage(<<"A cat">>)

\* C9: isLoading is true exactly when a chatWithImage call is in flight.
C9_BusyIffCallInFlight == isLoading <=> calls # <<>>

\* C10: handleImageCapture('') leaves images and messages empty, whatever they held,
\* and adds no image.
C10_SentinelClearsBoth ==
  [][ClearStep => (images' = <<>> /\ messages' = <<>>)]_vars

\* the recognition stopped by the last handler saw two or more images and a
\* non-empty messages, and both are empty now: no removal empties two images
C10_Witness ==
  /\ stopped # NoRecognition
  /\ stopped.age = 0
  /\ Len(stopped.props.images) >= 2
  /\ stopped.props.messages # <<>>
  /\ images = <<>>
  /\ messages = <<>>

\* C11: removeImage(index) with index outside 0..images.length-1 leaves images as it
\* is and touches neither isLoading nor the calls in flight (it does empty messages,
\* as every removeImage does: C2).
C11_OutOfRangeRemoveKeepsImages ==
  [][\A index \in Indexes :
       (removeImage(index) /\ (index < 0 \/ index >= Len(images))) =>
          /\ images' = images
          /\ Len(images') <= MaxImages
          /\ isLoading' = isLoading
          /\ calls' = calls]_vars

\* the handler that ran last, in voice mode, found two images and a conversation and
\* left the same two images and no conversation: an add would have made three, a
\* removal in range one, the sentinel none
C11_Witness ==
  /\ stopped # NoRecognition
  /\ stopped.age = 0
  /\ Len(images) = 2
  /\ stopped.props.images = images
  /\ stopped.props.messages # <<>>
  /\ messages = <<>>

\* C12: removeImage is idempotent: after removeImage(index), a second removeImage(index)
\* leaves images (and the emptied messages) as the first left them.
C12_RemoveIdempotent ==
  [][\A index \in Indexes :
       removeImage(index) => FilterOutIndex(images', index) = images']_vars

\* C13: a step that is not an addImage, a clear or a removeImage leaves messages as
\* it is or adds one message at its end; no message already there is removed,
\* replaced, reordered or modified.
C13_MessagesAppendOnly ==
  [][(AddImageStep \/ ClearStep \/ RemoveImageStep) \/ AppendsAtMostOne(messages, messages')]_vars

\* C14: the conversation history passed to chatWithImage is the (role, content)
\* projection of the messages held before the current user message, oldest first.
C14_HistoryIsPriorMessages ==
  [][CallIssued => NewCall.conversationHistory = ConversationHistory(messages)]_vars

\* C15: a send that issues the AI call passes the user's text prefixed with
\* "I have N images to analyze. " when images holds N > 1 images and unchanged when
\* it holds one; the image passed, and the one the stored user message refers to,
\* is images[0].
C15_CountPrefixAndFirstImage ==
  [][CallIssued =>
       LET userMessage == messages'[Len(messages')]
       IN /\ images # <<>>
          /\ NewCall.message =
               (IF Len(images) > 1
                THEN << "I have " \o ToString(Len(images)) \o " images to analyze. " >>
                     \o userMessage.content
                ELSE userMessage.content)
          /\ NewCall.imageUrl = images[1]
          /\ userMessage.imageUrl = images[1]]_vars

C17_SendKeepsImages ==
  [][/\ (SendStep \/ SettleStep) => images' = images
     /\ \A i \in 1..Len(calls) : \A o \in Outcomes :
          (chatSettles(i, o) /\ ~Succeeds(o)) => (images' = images /\ ~isLoading')]_vars

\* two turns failed one after the other: the second send was accepted after the first
\* failure, the images are still there and the session is idle again
C17_Witness ==
  /\ images # <<>>
  /\ calls = <<>>
  /\ ~isLoading
  /\ Len(messages) = 2
  /\ messages[1].role = "user"
  /\ messages[2].role = "user"

\* C18: in both variants, the prompt of every ai.generate call begins with the
\* system prompt, then the 6 most recent history messages in their order, each as
\* "User: ..." or "Assistant: ...", then the user's request: no older message is in
\* the prompt.
C18_WindowOfSix ==
  \A k \in 1..Len(generated) :
    LET expected == BuildPrompt(req.message, req.conversationHistory, 6)
    IN /\ Len(generated[k].prompt) >= Len(expected)
       /\ SubSeq(generated[k].prompt, 1, Len(expected)) = expected

\* C19: in part_000, once a multimodal generation was attempted: if it succeeded it
\* is the only generation and its text is returned with success=true; if it failed
\* exactly one text-only generation follows, the result is success=true with its
\* text if it succeeds and success=false if it fails; never more than two
\* generations.
C19_SingleTextFallback ==
  (generated # <<>> /\ req.variant = "part_000" /\ generated[1].kind = "multimodal") =>
      /\ Len(generated) <= 2
      /\ generated[1].outcome = "ok" => Len(generated) = 1
      /\ generated[1].outcome = "failed" =>
           /\ Len(generated) = 2
           /\ generated[2].kind = "text"
      /\ pc = "returned" =>
           LET last == generated[Len(generated)]
           IN /\ last.outcome # "pending"
              /\ result.kind = "fulfilled"
              /\ result.response.success = (last.outcome = "ok")
              /\ last.outcome = "ok" => result.response.message = last.text

\* the multimodal generation failed, the text-only one replied
C19_Witness ==
  /\ pc = "returned"
  /\ req.variant = "part_000"
  /\ Len(generated) = 2
  /\ generated[1].kind = "multimodal"
  /\ generated[1].outcome = "failed"
  /\ generated[2].kind = "text"
  /\ generated[2].outcome = "ok"
  /\ result.response.success
  /\ result.response.message = <<"A cat">>

\* C20: in both variants the promise of chatWithImage never rejects; it fulfils with
\* a ChatResponse whose success is true exactly when a generation succeeded, message
\* then being that generation's text, and which on every failure carries a non-empty
\* message and an error string.
C20_ChatWithImageTotal ==
  /\ result.kind # "rejected"
  /\ pc # "returned" => result = NoResult
  /\ pc = "returned" =>
       /\ result.kind = "fulfilled"
       /\ result.response.success \in BOOLEAN
       /\ result.response.success <=>
            (generated # <<>> /\ generated[Len(generated)].outcome = "ok")
       /\ result.response.success =>
            result.response.message = generated[Len(generated)].text
       /\ ~result.response.success =>
            /\ result.response.message # <<>>
            /\ result.response.error # Undefined

\* part_001 was given an imageUrl that is no string: the exception of imageUrl.trim()
\* reached the outer catch
C20_Witness ==
  /\ pc = "returned"
  /\ req.variant = "part_001"
  /\ req.imageUrl = NonString
  /\ generated = <<>>
  /\ result.kind = "fulfilled"
  /\ ~result.response.success
  /\ result.response.error = "Processing failed"

\* C23: whenever handleSendMessage is called, from the form or from a recognition
\* result, the text it is given is non-empty and has no whitespace at either end:
\* the form passes the trimmed input, a result passes the trimmed concatenation of
\* its final parts, and nothing is passed when that is empty. Seen in the state: a
\* handler that changes messages, calls or the mode was given such a text, and the
\* user message stored carries exactly it.
C23_SentTextTrimmedNonEmpty ==
  [][/\ \A inputText \in InputTexts :
          (handleSubmit(inputText) /\ <<messages, calls>>' # <<messages, calls>>) =>
             /\ Trim(inputText) # <<>>
             /\ messages'[Len(messages')].content = Trim(inputText)
     /\ \A event \in SpeechEvents :
          ((onresult(event) \/ onresultStopped(event))
             /\ <<messages, calls, isVoiceMode>>' # <<messages, calls, isVoiceMode>>) =>
             /\ Trim(FinalTranscript(event)) # <<>>
             /\ CallIssued => messages'[Len(messages')].content = Trim(FinalTranscript(event))
     /\ CallIssued =>
          LET text == messages'[Len(messages')].content
          IN /\ text # <<>>
             /\ Head(text) # Whitespace
             /\ text[Len(text)] # Whitespace]_vars

\* the recognition of the render with no message yet delivered 'what is this ' and
\* the handler sent it, trimmed, and left voice mode
C23_Witness ==
  /\ stopped # NoRecognition
  /\ stopped.age = 0
  /\ stopped.props.messages = <<>>
  /\ ~stopped.props.isLoading
  /\ ~isVoiceMode
  /\ Len(calls) = 1
  /\ Len(messages) = 1
  /\ messages[1].content = <<"what is this">>

\* C24: removeImage(index) with 0 <= index < images.length leaves images one shorter:
\* the entries before position index, then the entries after it, in their order.
C24_RemoveExactIndex ==
  [][\A index \in Indexes :
       (removeImage(index) /\ index >= 0 /\ index < Len(images)) =>
          /\ Len(images') = Len(images) - 1
          /\ \A j \in 1..Len(images') :
               images'[j] = images[IF j <= index THEN j ELSE j + 1]]_vars

\* the handler that ran last, in voice mode, found [img1, img2, img1] and left
\* [img1, img1]: the middle image was removed
C24_Witness ==
  /\ stopped # NoRecognition
  /\ stopped.age = 0
  /\ stopped.props.images = <<"img1", "img2", "img1">>
  /\ images = <<"img1", "img1">>

\* C30: the messages in messages have pairwise distinct ids, whatever the clock
\* reads when each send and each reply happens.
C30_DistinctIds ==
  \A i, j \in 1..Len(messages) : i # j => messages[i].id # messages[j].id

----------------------------------------------------------------------------
(* PhotoCapture: steps and claims, under PhotoSpec *)

\* a picture reaches handleImageCapture
DeliveryStep == \E imageUrl \in PhotoPayloads : handleImageCapture(imageUrl)
Delivered == images'[Len(images')]

\* size is what the width limit makes of a source of size d
Downscaled(d, size) ==
  /\ size.width <= MaxWidth
  /\ d.width <= MaxWidth => (size.width = d.width /\ size.height = d.height)
  /\ d.width > MaxWidth =>
       (size.width = MaxWidth /\ size.height * d.width = d.height * MaxWidth)

\* C22, as the code has it: a picture delivered by capturePhoto or by the upload
\* whose compression succeeded is at most 800 wide, with the size of its source
\* when that is at most 800 wide and else width 800 and height*800/width; the
\* upload's fallback delivers the file as it was read, whatever its width.
C22_CanvasPayloadsDownscaled ==
  [][ /\ \A frame \in VideoFrames :
           capturePhoto(frame) => Downscaled(frame, SizeOf(Delivered))
      /\ \A u \in 1..Len(uploads) :
           /\ imgOnload(u) => Downscaled(uploads[u].file, SizeOf(Delivered))
           /\ readerOnload(u) =>
                /\ SizeOf(Delivered).width = uploads[u].file.width
                /\ SizeOf(Delivered).height = uploads[u].file.height ]_vars

\* a captured frame and a compressed file, both wider than 800, are held at width
\* 800 beside a file of width 1600 that came through the fallback
C22_Witness ==
  \E i, j, k \in 1..Len(images) :
    /\ \E f \in VideoFrames :
         f.width > MaxWidth /\ images[i] = CapturedUrl(f) /\ SizeOf(images[i]).width = MaxWidth
    /\ \E f \in Files :
         f.width > MaxWidth /\ images[j] = CompressedUrl(f) /\ SizeOf(images[j]).width = MaxWidth
    /\ \E f \in Files : f.width > MaxWidth /\ images[k] = ReadAsDataURL(f)

\* C22, as stated: every picture delivered, the fallback's included, is at most
\* 800 wide.
C22_EveryPayloadDownscaled ==
  \A i \in 1..Len(images) : SizeOf(images[i]).width <= MaxWidth

\* C25: while 3 images are held, no step delivers another picture.
C25_NoFourthImage == [][Len(images) >= MaxImages => ~DeliveryStep]_vars

\* C26: once the camera view is closed and no getUserMedia request is pending, no
\* acquired stream still has running tracks.
C26_StreamsStopped == (~isCapturing /\ cameraRequests = 0) => liveStreams = {}

\* C27: isProcessing is true only while an upload's compression can still settle.
C27_ProcessingEnds ==
  isProcessing => \E u \in 1..Len(uploads) : uploads[u].state = "compressing"

----------------------------------------------------------------------------
(* VoiceInput: steps and claims, under VoiceSpec *)

\* recognition.start() is called: by startListening, or by the fallback
StartCalled ==
  \/ rec # "starting" /\ rec' = "starting"
  \/ Len(tried') > Len(tried)
  \/ startListening

\* onTranscript is called: a result with a final part reached onresult
TranscriptStep ==
  \E event \in SpeechEvents :
    /\ FinalTranscript(event) # <<>>
    /\ recognitionOnresult(event) \/ stoppedOnresult(event)

\* C21: when the speech API is missing, or after the error 'not-allowed', the
\* mounted VoiceInput has isSupported false; from then on, while it stays mounted,
\* isSupported stays false, start() is not called, no transcript is delivered, and
\* the Type toggle that brings the text form back can be used.
C21_UnsupportedStaysSilent ==
  [][ /\ (isVoiceMode' /\ speechApi' = "missing") => ~isSupported'
      /\ (isVoiceMode' /\ errorMessage' = AccessDeniedMessage) => ~isSupported'
      /\ (isVoiceMode /\ ~isSupported) =>
           /\ isVoiceMode' => ~isSupported'
           /\ ~StartCalled
           /\ ~TranscriptStep
           /\ ENABLED voiceModeOff ]_vars

\* microphone access was denied, the recognition has ended, and the session went
\* on: an image is held and a message was sent from the text form before
C21_Witness ==
  /\ isVoiceMode /\ ~isSupported
  /\ errorMessage = AccessDeniedMessage
  /\ rec = "idle"
  /\ images # <<>>
  /\ messages # <<>>

\* C28: the fallback calls start() with each of en-US, en, en-GB at most once.
C28_FallbackTriesEachOnce ==
  \A i, j \in 1..Len(tried) : i # j => tried[i] # tried[j]

\* C29: start() is called only while isListening is false.
C29_StartOnlyWhenNotListening == [][StartCalled => ~isListening]_vars

====
